---- MODULE Spec2Model ----
(***************************************************************************)
(* A model of tezerok/vector: the RAII owner of raw storage                *)
(* (uninitialized_memory.h) and the dynamic array built on it (vector.h).  *)
(*                                                                         *)
(* The heap is a finite set of blocks.  Every block has a capacity and a   *)
(* row of slots; a slot is live (it holds a constructed object) or dead    *)
(* (raw bytes).  Slots at an index >= the block's capacity are the memory  *)
(* that follows the block: a program that constructs there is out of       *)
(* bounds, which the model records as a fault of the operation.            *)
(*                                                                         *)
(* Indices are 0-based, as in the source.                                  *)
(***************************************************************************)
EXTENDS Integers, Sequences, FiniteSets, TLC

VARIABLES heap, vecs, owners, policy, last, stack

vars == <<heap, vecs, owners, policy, last, stack>>

\* ------------------------------------------------------------------ bounds

\* Largest capacity a block is given (growth beyond it is not explored).
MaxCap == 3

\* Largest number of elements a vector is left with (larger sizes are not
\* explored).
MaxSize == 2

\* Number of block addresses the allocator can hand out at the same time.
NBlocks == 3

\* Number of call frames the thread's stack has room for.
MaxDepth == 3

\* ------------------------------------------------------- values and slots

\* Element values a caller passes in.
Val == {1, 2}

\* T(): the value-initialised element (int{} and CtorThrower(int i = 0)).
ValueInit == 0

\* The value a moved-from element is left with (CtorThrower: x.i = 0).
Moved == 0

\* Indeterminate bytes: what raw storage holds where no object was built.
Junk == -1

Max(a, b) == IF a >= b THEN a ELSE b

Min(a, b) == IF a <= b THEN a ELSE b

\* The slot indices the model keeps for a block.
Idx == 0 .. (MaxCap - 1)

Blocks == 1 .. NBlocks

\* nullptr
Null == 0

Dead == [live |-> FALSE, val |-> Junk]

AllDead == [i \in Idx |-> Dead]

FreeBlock == [st |-> "free", cap |-> 0, slots |-> AllDead]

\* The three element-type capabilities force_capacity selects between
\* (if constexpr): nothrow move / throwing move with copy / throwing move only.
Policies == {"nothrow_move", "copy", "move_only"}

Names == {"v", "x"}

OwnerNames == {"a", "b"}

\* An owner object that is not constructed (or already destroyed).
NoOwner == [alive |-> FALSE, mem |-> Null, cap |-> 0]

NoVec == [alive |-> FALSE, mem |-> Null, cap |-> 0, size |-> 0]

\* ------------------------------------------------------ operation context
\* An operation is computed on a context: the heap, the vector it runs on,
\* and what the operation did so far (faults: undefined behaviour it ran
\* into; nc / nd: objects constructed / destroyed; res: how it ended).

Ctx(h, v) == [heap |-> h, v |-> v, faults |-> {}, nc |-> 0, nd |-> 0, res |-> "ok"]

Done(c, r) == [c EXCEPT !.res = r]

Fault(c, f) == [c EXCEPT !.faults = @ \cup {f}]

SlotAt(h, b, i) == IF b \in Blocks /\ i \in Idx THEN h[b].slots[i] ELSE Dead

\* Reading the object at (b, i): the value, or indeterminate bytes.
ValAt(h, b, i) == IF SlotAt(h, b, i).live THEN SlotAt(h, b, i).val ELSE Junk

\* How an access to slot i of block b goes wrong, if it does.
AccessFaults(h, b, i) ==
    IF b \notin Blocks \/ i \notin Idx THEN {"wild"}
    ELSE (IF h[b].st = "free" THEN {"use_after_free"} ELSE {})
         \cup (IF h[b].st # "free" /\ i >= h[b].cap THEN {"out_of_bounds"} ELSE {})

\* Placement new: new (&b[i]) T(x).
Construct(c, b, i, x) ==
    LET f == AccessFaults(c.heap, b, i)
             \cup (IF SlotAt(c.heap, b, i).live THEN {"construct_over_live"} ELSE {})
    IN  IF b \in Blocks /\ i \in Idx /\ c.heap[b].st # "free"
        THEN [c EXCEPT !.heap[b].slots[i] = [live |-> TRUE, val |-> x],
                       !.faults = @ \cup f,
                       !.nc = @ + 1]
        ELSE [c EXCEPT !.faults = @ \cup f, !.nc = @ + 1]

\* std::destroy_at(&b[i]).
DestroyAt(c, b, i) ==
    LET f == AccessFaults(c.heap, b, i) IN
    IF SlotAt(c.heap, b, i).live /\ c.heap[b].st # "free"
    THEN [c EXCEPT !.heap[b].slots[i] = Dead, !.faults = @ \cup f, !.nd = @ + 1]
    ELSE [c EXCEPT !.faults = @ \cup f \cup {"destroy_dead"}]

\* The source of a move is left live, holding the moved-from value.
MarkMoved(c, b, i) ==
    IF SlotAt(c.heap, b, i).live /\ c.heap[b].st # "free"
    THEN [c EXCEPT !.heap[b].slots[i].val = Moved]
    ELSE c

ReadFaults(h, b, i) ==
    AccessFaults(h, b, i) \cup (IF SlotAt(h, b, i).live THEN {} ELSE {"uninit_read"})

\* new (&db[di]) T(std::move(sb[si]))
MoveConstruct(c, sb, si, db, di) ==
    LET x  == ValAt(c.heap, sb, si)
        c1 == [c EXCEPT !.faults = @ \cup ReadFaults(c.heap, sb, si)]
        c2 == Construct(c1, db, di, x)
    IN  IF sb = db /\ si = di THEN c2 ELSE MarkMoved(c2, sb, si)

\* new (&db[di]) T(sb[si])
CopyConstruct(c, sb, si, db, di) ==
    LET x  == ValAt(c.heap, sb, si)
        c1 == [c EXCEPT !.faults = @ \cup ReadFaults(c.heap, sb, si)]
    IN  Construct(c1, db, di, x)

\* db[di] = std::move(sb[si])
MoveAssign(c, sb, si, db, di) ==
    LET x  == ValAt(c.heap, sb, si)
        f  == ReadFaults(c.heap, sb, si) \cup AccessFaults(c.heap, db, di)
              \cup (IF SlotAt(c.heap, db, di).live THEN {} ELSE {"assign_to_dead"})
        c1 == [c EXCEPT !.faults = @ \cup f]
        c2 == IF db \in Blocks /\ di \in Idx /\ c1.heap[db].st # "free"
                 /\ SlotAt(c1.heap, db, di).live
              THEN [c1 EXCEPT !.heap[db].slots[di].val = x]
              ELSE c1
    IN  MarkMoved(c2, sb, si)

RECURSIVE uninitialized_move_n(_, _, _, _, _)
\* std::uninitialized_move_n, elements i .. n-1 still to go.
uninitialized_move_n(c, sb, db, i, n) ==
    IF i >= n THEN c
    ELSE uninitialized_move_n(MoveConstruct(c, sb, i, db, i), sb, db, i + 1, n)

RECURSIVE uninitialized_copy_n(_, _, _, _, _)
\* std::uninitialized_copy_n, elements i .. n-1 still to go.
uninitialized_copy_n(c, sb, db, i, n) ==
    IF i >= n THEN c
    ELSE uninitialized_copy_n(CopyConstruct(c, sb, i, db, i), sb, db, i + 1, n)

RECURSIVE destroy(_, _, _, _)
\* std::destroy on the slots lo .. hi-1 of block b.
destroy(c, b, lo, hi) ==
    IF lo >= hi THEN c
    ELSE destroy(DestroyAt(c, b, lo), b, lo + 1, hi)

\* --------------------------------------------------- uninitialized_memory

FreeIds(h) == {b \in Blocks : h[b].st = "free"}

\* uninitialized_memory(size): ::operator new either throws std::bad_alloc or
\* returns a fresh block (also for size 0: a unique non-null block of no slots).
uninitialized_memory(h, n) ==
    {[ok |-> FALSE, heap |-> h, mem |-> Null, cap |-> 0]}
    \cup
    IF FreeIds(h) = {} THEN {}
    ELSE LET b == CHOOSE b \in FreeIds(h) : \A o \in FreeIds(h) : b <= o
         IN  {[ok |-> TRUE,
               heap |-> [h EXCEPT ![b] = [st |-> "live", cap |-> n, slots |-> AllDead]],
               mem |-> b, cap |-> n]}

\* ~uninitialized_memory(): ::operator delete(mem).  The objects still live in
\* the block are not destroyed: their storage just ends ("leak").
Release(c, b) ==
    IF b = Null THEN c
    ELSE IF c.heap[b].st = "free" THEN Fault(c, "double_free")
    ELSE LET c1 == IF \E i \in Idx : c.heap[b].slots[i].live THEN Fault(c, "leak") ELSE c
         IN  [c1 EXCEPT !.heap[b] = FreeBlock]

\* An owner is the pair (mem, _size).
Owner(m, n) == [mem |-> m, cap |-> n]

NullOwner == Owner(Null, 0)

\* A move constructor that copies the members and leaves x as it was.
um_move_ctor_Shallow(x) == [self |-> Owner(x.mem, x.cap), x |-> x]

\* uninitialized_memory(uninitialized_memory&& x): takes x's block, empties x.
um_move_ctor(x) == [self |-> Owner(x.mem, x.cap), x |-> NullOwner]

\* friend swap(a, b)
um_swap(a, b) == [a |-> b, b |-> a]

\* operator=(uninitialized_memory&& x): swap(*this, x).
um_move_assign(self, x) == [self |-> um_swap(self, x).a, x |-> um_swap(self, x).b]

\* std::swap(a, b) on two owners: tmp(move(a)); a = move(b); b = move(tmp).
\* tmp ends as the null owner, whose destructor deletes nullptr.
std_swap(a, b) ==
    LET s1 == um_move_ctor(a)
        s2 == um_move_assign(s1.x, b)
        s3 == um_move_assign(s2.x, s1.self)
    IN  [a |-> s2.self, b |-> s3.self, tmp |-> s3.x]

\* ------------------------------------------------------------------ vector

\* The elements of v, front to back: what iterating [begin(), end()) reads.
Elems(h, v) == [k \in 1 .. v.size |-> ValAt(h, v.mem, k - 1)]

\* Every slot of [0, size) holds an object.
AllLive(h, v) == \A i \in 0 .. (v.size - 1) : SlotAt(h, v.mem, i).live

\* The transfers of a reallocation that can throw: none when T's move
\* constructor is noexcept, otherwise each of the n.
ThrowPoints(n) == IF policy = "nothrow_move" THEN {} ELSE 0 .. (n - 1)

\* A force_capacity without the if constexpr: the elements are always moved.
Transfer_AlwaysMove(c, old, new, n) == uninitialized_move_n(c, old, new, 0, n)

\* force_capacity's if constexpr: copy when the move constructor may throw and
\* T is copyable, move otherwise.
Transfer(c, old, new, n) ==
    IF policy = "copy"
    THEN uninitialized_copy_n(c, old, new, 0, n)
    ELSE uninitialized_move_n(c, old, new, 0, n)

\* The transfer of element k throws: the standard algorithm destroys the k
\* objects it built in the new block and rethrows.
TransferThrows(c, old, new, k) == destroy(Transfer(c, old, new, k), new, 0, k)

\* A clear that only sets _size.
clear_SizeOnly(c) == [c EXCEPT !.v.size = 0]

\* clear(): std::destroy(begin(), end()); _size = 0.
clear(c) == [destroy(c, c.v.mem, 0, c.v.size) EXCEPT !.v.size = 0]

\* A force_capacity that destroys the elements before it allocates.
BadAlloc_AfterClear(c) == Done(clear(c), "bad_alloc")

\* newStorage's constructor throws std::bad_alloc: the exception leaves
\* force_capacity before any statement touched the vector.
BadAlloc(c) == Done(c, "bad_alloc")

\* force_capacity(newCapacity): the set of ways the call can end.
force_capacity(c, newCapacity) ==
    UNION {
        IF ~a.ok THEN {BadAlloc(c)}
        ELSE LET c1  == [c EXCEPT !.heap = a.heap]
                 old == c.v.mem
                 n   == c.v.size
                 tr  == Transfer(c1, old, a.mem, n)
                 sw  == std_swap(Owner(c.v.mem, c.v.cap), Owner(a.mem, a.cap))
                 st  == [tr EXCEPT !.v.mem = sw.a.mem, !.v.cap = sw.a.cap]
             IN  {Done(Release(Release(st, sw.tmp.mem), sw.b.mem), "ok")}
                 \cup
                 {LET t == TransferThrows(c1, old, a.mem, k)
                      h == IF policy = "move_only" THEN clear(t) ELSE t
                  IN  Done(Release(h, a.mem), "throw_realloc") : k \in ThrowPoints(n)}
        : a \in uninitialized_memory(c.heap, newCapacity)}

\* A reserve without the early return: it reallocates on every call.
reserve_Always(c, newCapacity) == force_capacity(c, newCapacity)

\* reserve(newCapacity)
reserve(c, newCapacity) ==
    IF newCapacity <= c.v.cap THEN {c} ELSE force_capacity(c, newCapacity)

\* if (size() >= capacity()) reserve(size()*2);
Grow(c) == IF c.v.size >= c.v.cap THEN reserve(c, c.v.size * 2) ELSE {c}

\* push_back(u)
push_back(c, u) ==
    UNION {
        IF r.res # "ok" THEN {r}
        ELSE LET c1 == [r EXCEPT !.v.size = @ + 1]
             IN  {Done(Construct(c1, c1.v.mem, r.v.size, u), "ok"),
                  Done(c1, "throw_ctor")}
        : r \in Grow(c)}

\* emplace_back(args...): the same statements as push_back.
emplace_back(c, u) == push_back(c, u)

\* pop_back(): std::destroy_at(&storage[--_size]).
pop_back(c) ==
    LET c1 == [c EXCEPT !.v.size = @ - 1]
    IN  DestroyAt(c1, c1.v.mem, c1.v.size)

RECURSIVE move_left(_, _, _, _)
\* std::move(first, last, first - 1) on the slots i .. hi-1 of block b.
move_left(c, b, i, hi) ==
    IF i >= hi THEN c
    ELSE move_left(MoveAssign(c, b, i, b, i - 1), b, i + 1, hi)

\* An erase without the std::move: it drops the last element.
erase_NoShift(c, pos) == pop_back(c)

\* erase(it), it == begin() + pos.
erase(c, pos) ==
    LET c1 == move_left(c, c.v.mem, pos + 1, c.v.size)
        c2 == [c1 EXCEPT !.v.size = @ - 1]
    IN  DestroyAt(c2, c2.v.mem, c2.v.size)

RECURSIVE move_right(_, _, _, _)
\* std::move over reverse iterators: the slots hi, hi-1, .. lo of block b are
\* each move-assigned one slot to the right, the rightmost first.
move_right(c, b, hi, lo) ==
    IF hi < lo THEN c
    ELSE move_right(MoveAssign(c, b, hi, b, hi + 1), b, hi - 1, lo)

\* The ways std::move(rev(end()-2), rev(it), rev(end()-1)) can go, n being the
\* size before the call.  A valid range has n-1-pos >= 0 elements.  With
\* it == end() the range has distance -1, and with `it` left pointing into
\* the block a reallocation released the distance is the difference of two
\* unrelated addresses: an invalid range, which an implementation that
\* counts the distance treats as empty when it is negative and otherwise
\* walks down past the front of the block (res "corrupt").
ShiftOutcomes(c, n, pos, dangling) ==
    IF ~dangling /\ pos <= n - 1
    THEN {move_right(c, c.v.mem, n - 2, pos)}
    ELSE {Fault(c, "invalid_range")}
         \cup {Done(Fault(move_right(c, c.v.mem, n - 2, -1), "invalid_range"), "corrupt")}

\* insert(it, u), it == begin() + pos before the call.  In
\* `new (&storage[_size++]) T(std::move(back()))` the placement argument is
\* sequenced before the initializer (C++17 [expr.new]), so back() is read
\* after _size was incremented.
insert(c, pos, u) ==
    UNION {
        IF r.res # "ok" THEN {r}
        ELSE LET n        == c.v.size
                 dangling == r.v.mem # c.v.mem
                 target   == IF dangling THEN c.v.mem ELSE r.v.mem
                 c1       == [r EXCEPT !.v.size = @ + 1]
                 back     == c1.v.size - 1
                 c2       == MoveConstruct(c1, c1.v.mem, back, c1.v.mem, n)
             IN  (IF policy = "nothrow_move" THEN {} ELSE {Done(c1, "throw_ctor")})
                 \cup
                 UNION {
                     IF s.res # "ok" THEN {s}
                     ELSE {Done(Construct(s, target, pos, u), "ok"),
                           Done(s, "throw_ctor")}
                     : s \in ShiftOutcomes(c2, n, pos, dangling)}
        : r \in Grow(c)}

\* emplace(it, args...): the same statements as insert.
emplace(c, pos, u) == insert(c, pos, u)

RECURSIVE uninitialized_value_construct_n(_, _, _, _)
\* std::uninitialized_value_construct_n on the slots i .. hi-1 of block b.
uninitialized_value_construct_n(c, b, i, hi) ==
    IF i >= hi THEN c
    ELSE uninitialized_value_construct_n(Construct(c, b, i, ValueInit), b, i + 1, hi)

\* A resize that only sets _size.
resize_SizeOnly(c, newSize) == {[c EXCEPT !.v.size = newSize]}

\* resize(newSize)
resize(c, newSize) ==
    IF newSize < c.v.size
    THEN {[destroy(c, c.v.mem, newSize, c.v.size) EXCEPT !.v.size = newSize]}
    ELSE IF newSize > c.v.size
    THEN {IF r.res # "ok" THEN r
          ELSE [uninitialized_value_construct_n(r, r.v.mem, r.v.size, newSize)
                   EXCEPT !.v.size = newSize]
          : r \in reserve(c, newSize)}
    ELSE {[c EXCEPT !.v.size = newSize]}

\* A shrink_to_fit without the early return.
shrink_to_fit_Always(c) == force_capacity(c, c.v.size)

\* shrink_to_fit()
shrink_to_fit(c) ==
    IF c.v.size = c.v.cap THEN {c} ELSE force_capacity(c, c.v.size)

\* at(index): throws when index > size(), else returns storage[index].
at(c, index) ==
    IF index > c.v.size
    THEN [ctx |-> Done(c, "out_of_range"), ret |-> Junk]
    ELSE [ctx |-> [c EXCEPT !.faults = @ \cup ReadFaults(c.heap, c.v.mem, index)],
          ret |-> ValAt(c.heap, c.v.mem, index)]

\* friend swap(vector& a, vector& b): swap(a.storage, b.storage) finds the
\* owners' friend swap, then the sizes are exchanged.
vector_swap(a, b) ==
    LET st == um_swap(Owner(a.mem, a.cap), Owner(b.mem, b.cap))
    IN  [a |-> [alive |-> TRUE, mem |-> st.a.mem, cap |-> st.a.cap, size |-> b.size],
         b |-> [alive |-> TRUE, mem |-> st.b.mem, cap |-> st.b.cap, size |-> a.size]]

\* vector(): storage(0), _size(0).  The constructor is noexcept: a failed
\* allocation ends the program (std::terminate).
vector_default(h) ==
    {IF a.ok
     THEN Ctx(a.heap, [alive |-> TRUE, mem |-> a.mem, cap |-> a.cap, size |-> 0])
     ELSE Done(Ctx(h, NoVec), "terminate")
     : a \in uninitialized_memory(h, 0)}

RECURSIVE uninitialized_copy_seq(_, _, _, _)
\* std::uninitialized_copy / uninitialized_fill_n from a sequence of values
\* into the slots i-1 .. Len(s)-1 of block b.
uninitialized_copy_seq(c, b, s, i) ==
    IF i > Len(s) THEN c
    ELSE uninitialized_copy_seq(Construct(c, b, i - 1, s[i]), b, s, i + 1)

\* vector(size, elem), vector(ilist), vector(first, last), vector(size):
\* storage(n), _size(n), then the n elements are built from s.
vector_from(h, s) ==
    {IF a.ok
     THEN uninitialized_copy_seq(
              Ctx(a.heap, [alive |-> TRUE, mem |-> a.mem, cap |-> a.cap, size |-> Len(s)]),
              a.mem, s, 1)
     ELSE Done(Ctx(h, NoVec), "bad_alloc")
     : a \in uninitialized_memory(h, Len(s))}

\* ~vector(): std::destroy_n(storage.get(), size()), then ~uninitialized_memory.
vector_dtor(c) ==
    [Release(destroy(c, c.v.mem, 0, c.v.size), c.v.mem) EXCEPT !.v = NoVec]

\* vector(vector&& x) noexcept : vector() { swap(*this, x); }
\* The fresh empty vector takes x's block and size, x keeps the fresh one.
vector_move_ctor(h, x) ==
    {[heap |-> d.heap, res |-> d.res,
      self |-> IF d.res = "ok" THEN vector_swap(d.v, x).a ELSE NoVec,
      x    |-> IF d.res = "ok" THEN vector_swap(d.v, x).b ELSE x]
     : d \in vector_default(h)}

\* operator=(vector&& x): swap(*this, x).
vector_move_assign(self, x) ==
    [self |-> vector_swap(self, x).a, x |-> vector_swap(self, x).b]

\* A copy constructor that fills the copy with x's first element.
vector_copy_ctor_Fill(h, x) == vector_from(h, [j \in 1 .. x.size |-> ValAt(h, x.mem, 0)])

\* vector(const vector& x): storage(x._size), _size(x._size), then
\* std::uninitialized_copy_n.  A copy that throws destroys what was built and
\* the storage member releases the block.
vector_copy_ctor(h, x) ==
    UNION {
        IF ~a.ok THEN {Done(Ctx(h, NoVec), "bad_alloc")}
        ELSE LET c0 == Ctx(a.heap, [alive |-> TRUE, mem |-> a.mem, cap |-> a.cap,
                                    size |-> x.size])
             IN  {uninitialized_copy_n(c0, x.mem, a.mem, 0, x.size)}
                 \cup
                 {LET t == destroy(uninitialized_copy_n(c0, x.mem, a.mem, 0, k), a.mem, 0, k)
                  IN  Done([Release(t, a.mem) EXCEPT !.v = NoVec], "throw_ctor")
                  : k \in ThrowPoints(x.size)}
        : a \in uninitialized_memory(h, x.size)}

\* The tail shared by operator=(vector x), operator=(ilist) and assign: the
\* temporary p.v is swapped with *this and destroyed holding the old contents.
SwapWithTemporary(c, p) ==
    IF p.res # "ok" THEN [p EXCEPT !.v = c.v]
    ELSE LET sw == vector_swap(c.v, p.v)
         IN  [vector_dtor([p EXCEPT !.v = sw.b]) EXCEPT !.v = sw.a]

\* operator=(vector x) called with an lvalue: x is copy-constructed from the
\* argument, swap(*this, x), x is destroyed.
copy_assign(c, x) == {SwapWithTemporary(c, p) : p \in vector_copy_ctor(c.heap, x)}

\* operator=(ilist), assign(ilist), assign(first, last), assign(count, value):
\* vector<T> newVector(...); swap(*this, newVector).
assign(c, s) == {SwapWithTemporary(c, p) : p \in vector_from(c.heap, s)}

\* operator==(a, b): sizes, then std::equal over [begin(a), end(a)).
operator_eq(h, a, b) ==
    /\ a.size = b.size
    /\ \A i \in 0 .. (a.size - 1) : ValAt(h, a.mem, i) = ValAt(h, b.mem, i)

\* ----------------------------------------------------------- state machine

\* Sequences of caller values, up to the largest size explored.
Seqs == UNION {[1 .. n -> Val] : n \in 0 .. MaxSize}

\* `last`: the operation that ran last, how it ended (res), what it returned
\* (ret), the undefined behaviour it ran into (faults) and the number of
\* objects it constructed (nc) and destroyed (nd).
NoOp == [op |-> "none", res |-> "ok", ret |-> Junk, faults |-> {}, nc |-> 0, nd |-> 0]

Init ==
    /\ heap = [b \in Blocks |-> FreeBlock]
    /\ vecs = [n \in Names |-> NoVec]
    /\ owners = [o \in OwnerNames |-> NoOwner]
    /\ policy \in Policies
    /\ last = NoOp
    /\ stack = <<>>

\* The program is still running: it neither terminated nor corrupted its heap.
Running == last.res \notin {"corrupt", "terminate"}

\* The context an operation on vector n starts from.
Start(n) == Ctx(heap, vecs[n])

\* The operation `op` on vector n ended as o, returning ret.  Outcomes that
\* leave the vector larger than the sizes explored are not followed.
Commit(op, n, o, ret) ==
    /\ o.v.size <= MaxSize
    /\ heap' = o.heap
    /\ vecs' = [vecs EXCEPT ![n] = o.v]
    /\ last' = [op |-> op, res |-> o.res, ret |-> ret,
                faults |-> o.faults, nc |-> o.nc, nd |-> o.nd]
    /\ UNCHANGED <<owners, policy, stack>>

Usable(n) == Running /\ vecs[n].alive

\* The block a growth asks for stays within the capacities explored.
CanGrow(v) == v.size < v.cap \/ v.size * 2 <= MaxCap

VectorDefault(n) ==
    /\ Running /\ ~vecs[n].alive
    /\ \E o \in vector_default(heap) : Commit("vector", n, o, Junk)

\* vector(size): s is `size` value-initialised elements.  (As written the
\* constructor hands `storage` itself, not storage.get(), to the standard
\* algorithm; the action is what the body is there to do.)
VectorCount(n) ==
    /\ Running /\ ~vecs[n].alive
    /\ \E k \in 0 .. MaxSize :
         \E o \in vector_from(heap, [j \in 1 .. k |-> ValueInit]) :
            Commit("vector_count", n, o, Junk)

\* vector(size, elem)
VectorFillStep(n, k, e) ==
    /\ Running /\ ~vecs[n].alive
    /\ \E o \in vector_from(heap, [j \in 1 .. k |-> e]) :
         Commit("vector_fill", n, o, Junk)

VectorFill(n) == \E k \in 0 .. MaxSize, e \in Val : VectorFillStep(n, k, e)

\* vector(ilist), vector(first, last)
VectorIlistStep(n, s) ==
    /\ Running /\ ~vecs[n].alive
    /\ \E o \in vector_from(heap, s) : Commit("vector_ilist", n, o, Junk)

VectorIlist(n) == \E s \in Seqs : VectorIlistStep(n, s)

VectorDtor(n) ==
    /\ Usable(n)
    /\ Commit("dtor", n, vector_dtor(Start(n)), Junk)

\* push_back(u) and emplace_back(args...): the two bodies are the same
\* statements, so one action stands for a call of either.
PushBackStep(n, u) ==
    /\ Usable(n) /\ CanGrow(vecs[n])
    /\ \E o \in push_back(Start(n), u) \cup emplace_back(Start(n), u) :
         Commit("push_back", n, o, Junk)

PushBack(n) == \E u \in Val : PushBackStep(n, u)

\* insert(it, u) and emplace(it, args...), it == begin() + pos: again the same
\* statements, and one action for a call of either.
InsertStep(n, pos, u) ==
    /\ Usable(n) /\ CanGrow(vecs[n]) /\ pos \in 0 .. vecs[n].size
    /\ \E o \in insert(Start(n), pos, u) \cup emplace(Start(n), pos, u) :
         Commit("insert", n, o, Junk)

Insert(n) == \E pos \in 0 .. MaxSize, u \in Val : InsertStep(n, pos, u)

PopBack(n) ==
    /\ Usable(n) /\ vecs[n].size > 0
    /\ Commit("pop_back", n, pop_back(Start(n)), Junk)

EraseStep(n, pos) ==
    /\ Usable(n) /\ pos \in 0 .. (vecs[n].size - 1)
    /\ Commit("erase", n, erase(Start(n), pos), Junk)

Erase(n) == \E pos \in 0 .. MaxSize : EraseStep(n, pos)

ReserveStep(n, k) ==
    /\ Usable(n)
    /\ \E o \in reserve(Start(n), k) : Commit("reserve", n, o, Junk)

Reserve(n) == \E k \in 0 .. MaxCap : ReserveStep(n, k)

ResizeStep(n, k) ==
    /\ Usable(n)
    /\ \E o \in resize(Start(n), k) : Commit("resize", n, o, Junk)

Resize(n) == \E k \in 0 .. MaxSize : ResizeStep(n, k)

ShrinkToFit(n) ==
    /\ Usable(n)
    /\ \E o \in shrink_to_fit(Start(n)) : Commit("shrink_to_fit", n, o, Junk)

Clear(n) ==
    /\ Usable(n)
    /\ Commit("clear", n, clear(Start(n)), Junk)

AtStep(n, k) ==
    /\ Usable(n) /\ k \in 0 .. (vecs[n].size + 1)
    /\ Commit("at", n, at(Start(n), k).ctx, at(Start(n), k).ret)

At(n) == \E k \in 0 .. (MaxSize + 1) : AtStep(n, k)

Next ==
    \/ VectorDefault("v")
    \/ VectorCount("v")
    \/ VectorFill("v")
    \/ VectorIlist("v")
    \/ VectorDtor("v")
    \/ PushBack("v")
    \/ Insert("v")
    \/ PopBack("v")
    \/ Erase("v")
    \/ Reserve("v")
    \/ Resize("v")
    \/ ShrinkToFit("v")
    \/ Clear("v")
    \/ At("v")

Spec == Init /\ [][Next]_vars

\* ------------------------------------------- moves of owners and vectors

\* An operation on owner objects ended with heap h and owners ow.
CommitOwners(op, h, ow, res, faults) ==
    /\ heap' = h
    /\ owners' = ow
    /\ last' = [op |-> op, res |-> res, ret |-> Junk, faults |-> faults, nc |-> 0, nd |-> 0]
    /\ UNCHANGED <<vecs, policy, stack>>

AsOwner(o) == Owner(owners[o].mem, owners[o].cap)

Alive(w) == [alive |-> TRUE, mem |-> w.mem, cap |-> w.cap]

\* Owners and vectors share nothing but the heap: the runs explored work
\* with objects of one kind at a time.
NoVectors == \A n \in Names : ~vecs[n].alive

NoOwners == \A o \in OwnerNames : ~owners[o].alive

\* uninitialized_memory<T> o(k);
OwnerCtor(o) ==
    /\ Running /\ NoVectors /\ ~owners[o].alive
    /\ \E k \in 0 .. MaxSize :
       \E a \in uninitialized_memory(heap, k) :
         IF a.ok
         THEN CommitOwners("owner", a.heap,
                           [owners EXCEPT ![o] = Alive(Owner(a.mem, a.cap))], "ok", {})
         ELSE CommitOwners("owner", heap, owners, "bad_alloc", {})

\* uninitialized_memory<T> d(std::move(s));
OwnerMoveCtor(d, s) ==
    /\ Running /\ d # s /\ ~owners[d].alive /\ owners[s].alive
    /\ LET m == um_move_ctor(AsOwner(s))
       IN  CommitOwners("owner_move", heap,
                        [owners EXCEPT ![d] = Alive(m.self), ![s] = Alive(m.x)], "ok", {})

\* d = std::move(s);
OwnerMoveAssign(d, s) ==
    /\ Running /\ d # s /\ owners[d].alive /\ owners[s].alive
    /\ LET m == um_move_assign(AsOwner(d), AsOwner(s))
       IN  CommitOwners("owner_move_assign", heap,
                        [owners EXCEPT ![d] = Alive(m.self), ![s] = Alive(m.x)], "ok", {})

\* ~uninitialized_memory()
OwnerDtor(o) ==
    /\ Running /\ owners[o].alive
    /\ LET c == Release(Ctx(heap, NoVec), owners[o].mem)
       IN  CommitOwners("owner_dtor", c.heap, [owners EXCEPT ![o] = NoOwner], "ok", c.faults)

\* An operation on the vectors d and s ended with heap h.
CommitPair(op, h, d, dv, s, sv, res) ==
    /\ heap' = h
    /\ vecs' = [vecs EXCEPT ![d] = dv, ![s] = sv]
    /\ last' = [op |-> op, res |-> res, ret |-> Junk, faults |-> {}, nc |-> 0, nd |-> 0]
    /\ UNCHANGED <<owners, policy, stack>>

\* vector<T> d(std::move(s));
VectorMoveCtor(d, s) ==
    /\ Running /\ d # s /\ ~vecs[d].alive /\ vecs[s].alive
    /\ \E m \in vector_move_ctor(heap, vecs[s]) :
         CommitPair("move_ctor", m.heap, d, m.self, s, m.x, m.res)

\* d.operator=(std::move(s)) resolved to operator=(vector&&).
VectorMoveAssign(d, s) ==
    /\ Running /\ d # s /\ vecs[d].alive /\ vecs[s].alive
    /\ LET m == vector_move_assign(vecs[d], vecs[s])
       IN  CommitPair("move_assign", heap, d, m.self, s, m.x, "ok")

NextMove ==
    \/ \E n \in Names : NoOwners /\ VectorIlist(n)
    \/ \E n \in Names : PopBack(n)
    \/ \E n \in Names : VectorDtor(n)
    \/ \E d, s \in Names : VectorMoveCtor(d, s)
    \/ \E d, s \in Names : VectorMoveAssign(d, s)
    \/ \E o \in OwnerNames : OwnerCtor(o)
    \/ \E d, s \in OwnerNames : OwnerMoveCtor(d, s)
    \/ \E d, s \in OwnerNames : OwnerMoveAssign(d, s)
    \/ \E o \in OwnerNames : OwnerDtor(o)

\* Moves transfer blocks and never touch an element, so one element type
\* stands for all of them.
InitMove == Init /\ policy = "nothrow_move"

SpecMove == InitMove /\ [][NextMove]_vars

\* ------------------------------------- copies, assignments and swaps

\* The element type has a copy constructor.
Copyable == policy # "move_only"

\* vector<T> d(s);
VectorCopy(d, s) ==
    /\ Running /\ Copyable /\ d # s /\ ~vecs[d].alive /\ vecs[s].alive
    /\ \E o \in vector_copy_ctor(heap, vecs[s]) : Commit("copy_ctor", d, o, Junk)

\* d = s;
CopyAssign(d, s) ==
    /\ Usable(d) /\ Copyable /\ d # s /\ vecs[s].alive
    /\ \E o \in copy_assign(Start(d), vecs[s]) : Commit("copy_assign", d, o, Junk)

\* n = {s...};  n.assign({s...});  n.assign(first, last);  n.assign(count, value);
AssignStep(n, s) ==
    /\ Usable(n) /\ Copyable
    /\ \E o \in assign(Start(n), s) : Commit("assign", n, o, Junk)

Assign(n) == \E s \in Seqs : AssignStep(n, s)

\* swap(d, s);
Swap(d, s) ==
    /\ Running /\ d # s /\ vecs[d].alive /\ vecs[s].alive
    /\ LET sw == vector_swap(vecs[d], vecs[s])
       IN  CommitPair("swap", heap, d, sw.a, s, sw.b, "ok")

\* d == s
Equal(d, s) ==
    /\ Usable(d) /\ d # s /\ vecs[s].alive
    /\ Commit("equal", d, Start(d),
              IF operator_eq(heap, vecs[d], vecs[s]) THEN 1 ELSE 0)

\* Building vectors from sequences, copying them and comparing them.
NextCopy ==
    \/ VectorIlist("v")
    \/ VectorFill("v")
    \/ Assign("v")
    \/ \E n \in Names : VectorDtor(n)
    \/ VectorCopy("x", "v")
    \/ CopyAssign("x", "v")
    \/ Equal("x", "v")

SpecCopy == Init /\ [][NextCopy]_vars

\* Every way a block changes hands: constructions, copies, moves, swaps,
\* assignments, reallocations and destructions of two vectors.  The elements
\* are value-initialised: which values they hold plays no part here.
NextOwn ==
    \/ VectorDefault("v")
    \/ PopBack("v")
    \/ ShrinkToFit("v")
    \/ Resize("v")
    \/ \E n \in Names : VectorDtor(n)
    \/ VectorCopy("x", "v")
    \/ CopyAssign("x", "v")
    \/ Swap("v", "x")
    \/ \E d, s \in Names : VectorMoveCtor(d, s)
    \/ VectorMoveAssign("v", "x")

SpecOwn == Init /\ [][NextOwn]_vars

\* -------------------------------------------------- front() and back()
\*
\* A call in progress is a stack of frames.  The non-const overloads are one
\* expression and are taken in one step; the const overloads are followed
\* frame by frame.

\* reference front(): storage[0].
front(c) == ValAt(c.heap, c.v.mem, 0)

\* reference back(): storage[size() - 1].
back(c) == ValAt(c.heap, c.v.mem, c.v.size - 1)

ConstOverloads == {"front_const", "back_const"}

\* How a build compiles the call in `return front();`: as a call that pushes
\* a frame, or as a jump that reuses the caller's frame (a tail call).
Builds == {"call", "jump"}

\* No call is in progress.
Idle == stack = <<>>

Front(n) ==
    /\ Idle /\ Usable(n) /\ vecs[n].size > 0
    /\ Commit("front", n, Done(Start(n), "ok"), front(Start(n)))

Back(n) ==
    /\ Idle /\ Usable(n) /\ vecs[n].size > 0
    /\ Commit("back", n, Done(Start(n), "ok"), back(Start(n)))

\* The caller enters front() const or back() const of a non-empty vector n.
CallConst(n) ==
    /\ Idle /\ Usable(n) /\ vecs[n].size > 0
    /\ \E f \in ConstOverloads : \E b \in Builds :
         /\ stack' = <<[fn |-> f, vec |-> n, build |-> b]>>
         /\ last' = [NoOp EXCEPT !.op = f, !.res = "running"]
    /\ UNCHANGED <<heap, vecs, owners, policy>>

\* const_reference front() const { return front(); } and the same for back():
\* inside a const member `this` is const, so the call selects the const
\* overload again.  Here the call pushes a frame of the same function.
ConstRecurse ==
    /\ ~Idle /\ last.res = "running"
    /\ Head(stack).build = "call" /\ Len(stack) < MaxDepth
    /\ stack' = <<Head(stack)>> \o stack
    /\ UNCHANGED <<heap, vecs, owners, policy, last>>

\* The same call with no room left for a frame: the process is killed.
StackOverflow ==
    /\ ~Idle /\ last.res = "running"
    /\ Head(stack).build = "call" /\ Len(stack) = MaxDepth
    /\ last' = [last EXCEPT !.res = "stack_overflow"]
    /\ UNCHANGED <<heap, vecs, owners, policy, stack>>

\* The same call compiled as a jump to the function's own entry: the frame is
\* reused and nothing changes.
ConstTailJump ==
    /\ ~Idle /\ last.res = "running"
    /\ Head(stack).build = "jump"
    /\ UNCHANGED vars

\* One step of the call in progress.  No step returns: the body of a const
\* overload has no statement besides the call to itself.
ConstStep == ConstRecurse \/ StackOverflow \/ ConstTailJump

NextConst ==
    \/ Idle /\ VectorIlist("v")
    \/ Idle /\ PopBack("v")
    \/ Idle /\ VectorDtor("v")
    \/ Front("v")
    \/ Back("v")
    \/ CallConst("v")
    \/ ConstRecurse
    \/ StackOverflow
    \/ ConstTailJump

\* Operations run to completion on the calling thread: a call in progress
\* keeps executing.
SpecConst == Init /\ [][NextConst]_vars /\ WF_vars(ConstStep)

\* ------------------------------------------------------------------ claims

\* The vector the claims are about, before and after a step.
V == vecs["v"]

VNext == vecs'["v"]

\* Expected results, as sequences.
InsertAt(s, pos, u) == SubSeq(s, 1, pos) \o <<u>> \o SubSeq(s, pos + 1, Len(s))

RemoveAt(s, pos) == SubSeq(s, 1, pos) \o SubSeq(s, pos + 2, Len(s))

\* C1: in every state reached by constructors and mutating operations that
\* returned, 0 <= size <= capacity and exactly the slots [0, size) are live.
C1_SizeWithinCapacity ==
    (V.alive /\ last.res = "ok") =>
        /\ 0 <= V.size
        /\ V.size <= V.cap
        /\ \A i \in Idx : SlotAt(heap, V.mem, i).live <=> i < V.size

\* C2: for a copyable element type whose move constructor may throw, a copy
\* that throws during the reallocation of push_back / emplace_back / reserve
\* leaves size, capacity, storage block and elements as before the call, and
\* the partly built new block is gone from the heap.
C2_StrongGuarantee ==
    [][(policy = "copy" /\ last'.op \in {"push_back", "reserve"}
            /\ last'.res = "throw_realloc")
        => (vecs' = vecs /\ heap' = heap)]_vars

\* A full vector [1] whose next emplace_back had to reallocate, and the copy
\* of the element into the new block threw: still size 1, contents 1.
C2_Witness ==
    /\ policy = "copy" /\ last.op = "push_back" /\ last.res = "throw_realloc"
    /\ V.size = 1 /\ V.cap = 1 /\ Elems(heap, V) = <<1>> /\ AllLive(heap, V)
    /\ \A b \in Blocks : b # V.mem => heap[b] = FreeBlock

\* C3: a constructor that throws inside push_back / emplace_back leaves size
\* and the element sequence as before the call.
C3_CtorThrowLeavesUnchanged ==
    [][(last'.op = "push_back" /\ last'.res = "throw_ctor")
        => (VNext.size = V.size /\ Elems(heap', VNext) = Elems(heap, V))]_vars

\* C4: push_back / emplace_back / insert / emplace called with
\* size == capacity end with capacity max(1, 2 * size).
C4_GrowthPolicy ==
    [][(last'.op \in {"push_back", "insert"} /\ last'.res = "ok" /\ V.size = V.cap)
        => VNext.cap = Max(1, 2 * V.size)]_vars

\* C5: insert / emplace at pos on [e0..e(n-1)] with n < capacity gives size
\* n+1 and [e0..e(pos-1), u, e(pos)..e(n-1)].
C5_InsertNoGrowth ==
    [][\A pos \in 0 .. MaxSize, u \in Val :
        (InsertStep("v", pos, u) /\ last'.res = "ok"
            /\ V.size < V.cap /\ AllLive(heap, V))
        => (VNext.size = V.size + 1
            /\ Elems(heap', VNext) = InsertAt(Elems(heap, V), pos, u))]_vars

\* C6: insert / emplace at pos on [e0..e(n-1)] with n == capacity (the call
\* reallocates) gives [e0..e(pos-1), u, e(pos)..e(n-1)] in the new block.
C6_InsertWithGrowth ==
    [][\A pos \in 0 .. MaxSize, u \in Val :
        (InsertStep("v", pos, u) /\ last'.res = "ok"
            /\ V.size = V.cap /\ V.size > 0 /\ AllLive(heap, V))
        => (VNext.size = V.size + 1
            /\ Elems(heap', VNext) = InsertAt(Elems(heap, V), pos, u))]_vars

\* C7: erase(pos) on [e0..e(n-1)], 0 <= pos < n, gives size n-1 and
\* [e0..e(pos-1), e(pos+1)..e(n-1)], leaves the capacity and the block, and
\* destroys exactly one object.
C7_Erase ==
    [][\A pos \in 0 .. MaxSize :
        (last'.op = "erase" /\ AllLive(heap, V) /\ EraseStep("v", pos))
        => (/\ VNext.size = V.size - 1
            /\ Elems(heap', VNext) = RemoveAt(Elems(heap, V), pos)
            /\ AllLive(heap', VNext)
            /\ VNext.cap = V.cap /\ VNext.mem = V.mem
            /\ last'.nd = 1 /\ last'.nc = 0
            /\ ~SlotAt(heap', V.mem, V.size - 1).live)]_vars

\* An erase that shifted: [1, 2] or [2, 2] lost its first element.
C7_Witness ==
    /\ last.op = "erase" /\ last.nd = 1
    /\ V.size = 1 /\ V.cap >= 2 /\ Elems(heap, V) = <<2>>
    /\ ~SlotAt(heap, V.mem, 1).live

\* C8: at(i) fails with out-of-range for every i >= size, returns element i
\* for every i < size, and changes nothing in the container.
C8_AtChecked ==
    [][\A k \in 0 .. (MaxSize + 1) :
        (AtStep("v", k) /\ AllLive(heap, V))
        => (/\ (k >= V.size => last'.res = "out_of_range")
            /\ (k < V.size => last'.res = "ok" /\ last'.ret = Elems(heap, V)[k + 1])
            /\ vecs' = vecs /\ heap' = heap)]_vars

\* C9: a failed allocation during any growth is signalled and leaves the
\* container as it was: same block, capacity, size and elements, and no
\* object constructed or destroyed.
C9_AllocationFailure ==
    [][(last'.res = "bad_alloc"
            /\ last'.op \in {"reserve", "resize", "shrink_to_fit", "push_back", "insert"})
        => (vecs' = vecs /\ heap' = heap /\ last'.nc = 0 /\ last'.nd = 0)]_vars

\* An insert into the full vector [2] whose allocation failed.
C9_Witness ==
    /\ last.op = "insert" /\ last.res = "bad_alloc" /\ last.nc = 0 /\ last.nd = 0
    /\ V.size = 1 /\ V.cap = 1 /\ Elems(heap, V) = <<2>> /\ AllLive(heap, V)

\* C10: after move-constructing or move-assigning an owner or a vector d
\* from a source s, d holds s's former block, capacity (size, elements) and
\* s is empty: null block / capacity 0, and size 0 for a vector.
C10_MoveEmptiesSource ==
    [][/\ \A d, s \in OwnerNames :
            (OwnerMoveCtor(d, s) \/ OwnerMoveAssign(d, s))
            => (/\ AsOwner(d)' = AsOwner(s)
                /\ AsOwner(s)' = NullOwner)
       /\ \A d, s \in Names :
            ((VectorMoveCtor(d, s) \/ VectorMoveAssign(d, s)) /\ last'.res = "ok")
            => (/\ vecs'[d] = vecs[s]
                /\ Elems(heap', vecs'[d]) = Elems(heap, vecs[s])
                /\ vecs'[s].size = 0 /\ vecs'[s].cap = 0)]_vars

\* The blocks held by the live vectors and the live owner objects.
OwnedBlocks ==
    {vecs[n].mem : n \in {m \in Names : vecs[m].alive}}
    \cup {owners[o].mem : o \in {q \in OwnerNames : owners[q].alive /\ owners[q].mem # Null}}

\* C11: block ownership is exclusive and every block is released exactly
\* once: no two owners hold the same block, a block held by a live vector is
\* not released, no block is released twice, and a block that is still
\* allocated has an owner (so all are released once the owners are gone).
C11_ExclusiveOwnership ==
    /\ \A m, n \in Names :
         (m # n /\ vecs[m].alive /\ vecs[n].alive) => vecs[m].mem # vecs[n].mem
    /\ \A n \in Names, o \in OwnerNames :
         (vecs[n].alive /\ owners[o].alive) => vecs[n].mem # owners[o].mem
    /\ \A n \in Names :
         vecs[n].alive => (vecs[n].mem \in Blocks /\ heap[vecs[n].mem].st = "live")
    /\ "double_free" \notin last.faults
    /\ \A b \in Blocks : heap[b].st = "live" <=> b \in OwnedBlocks

\* Two live vectors, each with its own block, right after a reallocation of
\* v that threw and was rolled back.
C11_Witness ==
    /\ vecs["v"].alive /\ vecs["x"].alive
    /\ last.op = "resize" /\ last.res = "throw_realloc"
    /\ Cardinality(OwnedBlocks) = 2

\* C12: reserve(k) that returns leaves capacity >= k and the size and the
\* element sequence as they were; k <= capacity is a no-op (same block, same
\* capacity), k > capacity gives capacity exactly k.
C12_Reserve ==
    [][\A k \in 0 .. MaxCap :
        (last'.op = "reserve" /\ last'.res = "ok" /\ AllLive(heap, V)
            /\ ReserveStep("v", k))
        => (/\ VNext.cap >= k
            /\ VNext.size = V.size
            /\ Elems(heap', VNext) = Elems(heap, V)
            /\ AllLive(heap', VNext)
            /\ (k <= V.cap => (vecs' = vecs /\ heap' = heap /\ last'.nc = 0))
            /\ (k > V.cap => VNext.cap = k))]_vars

\* reserve(3) has just moved [1, 2] from a smaller block into one of
\* capacity 3.
C12_Witness ==
    /\ last.op = "reserve" /\ last.res = "ok" /\ last.nc = 2
    /\ V.size = 2 /\ V.cap = 3 /\ Elems(heap, V) = <<1, 2>> /\ AllLive(heap, V)

\* C13: resize(k) that returns leaves size k and the first min(old size, k)
\* elements as they were; growing value-initialises [old size, k) and gives
\* capacity exactly k when k exceeds the old capacity; shrinking destroys
\* exactly [k, old size) and keeps the capacity.
C13_Resize ==
    [][\A k \in 0 .. MaxSize :
        (last'.op = "resize" /\ last'.res = "ok" /\ AllLive(heap, V)
            /\ ResizeStep("v", k))
        => (/\ VNext.size = k
            /\ AllLive(heap', VNext)
            /\ \A i \in 1 .. Min(V.size, k) :
                 Elems(heap', VNext)[i] = Elems(heap, V)[i]
            /\ (k > V.size =>
                  /\ \A i \in (V.size + 1) .. k : Elems(heap', VNext)[i] = ValueInit
                  /\ (k > V.cap => VNext.cap = k)
                  /\ (k <= V.cap => (VNext.cap = V.cap /\ VNext.mem = V.mem)))
            /\ (k < V.size =>
                  /\ last'.nd = V.size - k /\ last'.nc = 0
                  /\ VNext.cap = V.cap /\ VNext.mem = V.mem
                  /\ \A i \in k .. (V.size - 1) : ~SlotAt(heap', V.mem, i).live))]_vars

\* resize(2) has just grown [1] past its capacity: [1, 0] in a block of 2.
C13_Witness ==
    /\ last.op = "resize" /\ last.res = "ok" /\ last.nc = 2
    /\ V.size = 2 /\ V.cap = 2 /\ Elems(heap, V) = <<1, ValueInit>>

\* C14: shrink_to_fit() leaves capacity == size with the same elements, and
\* a second shrink_to_fit() right after it changes nothing; clear() leaves
\* size 0 and the capacity as it was, and a second clear() right after it
\* leaves size 0 and destroys nothing.
C14_Idempotence ==
    [][/\ (last'.op = "shrink_to_fit" /\ last'.res = "ok" /\ AllLive(heap, V)
              /\ ShrinkToFit("v"))
          => (/\ VNext.cap = VNext.size
              /\ VNext.size = V.size
              /\ Elems(heap', VNext) = Elems(heap, V)
              /\ AllLive(heap', VNext))
       /\ (last.op = "shrink_to_fit" /\ last.res = "ok" /\ ShrinkToFit("v"))
          => (/\ vecs' = vecs /\ heap' = heap
              /\ last'.res = "ok" /\ last'.nc = 0 /\ last'.nd = 0)
       /\ (last'.op = "clear" /\ AllLive(heap, V) /\ Clear("v"))
          => (/\ VNext.size = 0
              /\ VNext.cap = V.cap /\ VNext.mem = V.mem
              /\ last'.nd = V.size)
       /\ (last.op = "clear" /\ Clear("v"))
          => (/\ vecs' = vecs /\ heap' = heap
              /\ VNext.size = 0 /\ last'.nd = 0)]_vars

\* shrink_to_fit() has just moved [2] out of a larger block into one of
\* capacity 1.
C14_Witness ==
    /\ last.op = "shrink_to_fit" /\ last.res = "ok" /\ last.nc = 1
    /\ V.size = 1 /\ V.cap = 1 /\ Elems(heap, V) = <<2>> /\ AllLive(heap, V)

\* C15: a vector constructed or assigned from a sequence [a1..an] (literal
\* sequence, range, count + value; constructor, operator= or assign) has
\* size n and reads a1..an front to back; a copy of a vector (copy
\* constructor or copy assignment) compares equal to the original right
\* after the copy.  Stated of every reachable state: whatever sequence the
\* constructor or the assignment is given there, and whichever vector is
\* copied there.
C15_RoundTrip ==
    /\ \A s \in Seqs :
         /\ \A o \in vector_from(heap, s) :
              o.res = "ok" =>
                (/\ o.v.size = Len(s)
                 /\ Elems(o.heap, o.v) = s
                 /\ AllLive(o.heap, o.v))
         /\ (Usable("v") /\ Copyable) =>
              \A o \in assign(Start("v"), s) :
                 o.res = "ok" =>
                   (/\ o.v.size = Len(s)
                    /\ Elems(o.heap, o.v) = s
                    /\ AllLive(o.heap, o.v))
    /\ (Usable("v") /\ Copyable) =>
         /\ \A o \in vector_copy_ctor(heap, V) :
              o.res = "ok" =>
                (/\ operator_eq(o.heap, o.v, V)
                 /\ Elems(o.heap, o.v) = Elems(heap, V)
                 /\ Elems(o.heap, V) = Elems(heap, V))
         /\ vecs["x"].alive =>
              \A o \in copy_assign(Start("x"), V) :
                 o.res = "ok" =>
                   (/\ operator_eq(o.heap, o.v, V)
                    /\ Elems(o.heap, o.v) = Elems(heap, V)
                    /\ Elems(o.heap, V) = Elems(heap, V))

\* x = v has just replaced x's contents by a copy of v == [1, 2].
C15_Witness ==
    /\ last.op = "copy_assign" /\ last.res = "ok" /\ last.nd > 0
    /\ vecs["v"].alive /\ vecs["x"].alive
    /\ Elems(heap, vecs["v"]) = <<1, 2>>
    /\ operator_eq(heap, vecs["x"], vecs["v"])

\* C16: every successful reallocation destroys each of the `size` old
\* elements exactly once after the transfer and then releases the old block:
\* no old element is left alive in released memory.
C16_ReallocationDestroysOld ==
    [][(/\ last'.op \in {"reserve", "shrink_to_fit", "resize", "push_back", "insert"}
        /\ last'.res = "ok"
        /\ V.alive /\ AllLive(heap, V) /\ VNext.mem # V.mem)
       => (last'.nd = V.size /\ "leak" \notin last'.faults)]_vars

\* C17: element type with a throwing move constructor and no copy
\* constructor: when a move throws partway through a reallocation, every
\* object built in the new block and every object of the old block is
\* destroyed exactly once, the new block is released, the failure reaches the
\* caller and the vector is left valid with size 0.
C17_BasicGuarantee ==
    [][(/\ policy = "move_only" /\ last'.res = "throw_realloc"
        /\ V.alive /\ AllLive(heap, V) /\ V.size <= V.cap)
       => (/\ VNext.size = 0 /\ VNext.mem = V.mem /\ VNext.cap = V.cap
           /\ \A b \in Blocks : \A i \in Idx : ~heap'[b].slots[i].live
           /\ \A b \in Blocks : heap'[b].st = "live" <=> b = V.mem
           /\ last'.nd = last'.nc + V.size
           /\ last'.faults = {})]_vars

\* reserve on [_, _] threw at the second move: one object was built in the
\* new block, three were destroyed, the vector is empty with its old block.
C17_Witness ==
    /\ policy = "move_only" /\ last.op = "reserve" /\ last.res = "throw_realloc"
    /\ last.nc = 1 /\ last.nd = 3
    /\ V.size = 0 /\ V.cap = 2

\* C18: push_back, insert and resize touch only slots below the capacity of
\* the block the vector currently owns: no access at or beyond capacity
\* (a vector of capacity 0 included), none to a block already released.
C18_MemorySafety ==
    [][(/\ last'.op \in {"push_back", "insert", "resize"}
        /\ V.alive /\ AllLive(heap, V) /\ V.size <= V.cap)
       => last'.faults \cap {"wild", "use_after_free", "out_of_bounds"} = {}]_vars

\* C19: within one operation a slot is constructed only while uninitialized
\* and destroyed only while live; insert at pos < size never builds the new
\* value over a slot that still holds a live object.  Stated for a non-empty
\* vector with spare capacity, where no operation has to reallocate.
C19_SlotLifecycle ==
    [][(/\ last'.op \in {"push_back", "insert", "resize", "erase", "pop_back",
                         "clear", "reserve", "shrink_to_fit"}
        /\ V.alive /\ AllLive(heap, V) /\ 1 <= V.size /\ V.size < V.cap)
       => last'.faults \cap {"construct_over_live", "destroy_dead"} = {}]_vars

\* A const overload f is executing on the vector.
InConstCall(f) == ~Idle /\ Head(stack).fn = f /\ last.res = "running"

\* The call of the const overload f has returned ret to its caller.
ConstReturned(f, ret) == Idle /\ last.op = f /\ last.res = "ok" /\ last.ret = ret

\* C20: front() and back() called on a const non-empty vector run to
\* completion and return the element at index 0 and at index size-1, the
\* elements the non-const overloads return.
C20_ConstAccessorsReturn ==
    /\ InConstCall("front_const") ~> ConstReturned("front_const", front(Start("v")))
    /\ InConstCall("back_const") ~> ConstReturned("back_const", back(Start("v")))

====
